---- MODULE Spec2Model ----
(***************************************************************************)
(* Sweep-hull Delaunay triangulation of src/src/lib.rs (Delaunay::new,     *)
(* Hull, legalize) as a state machine.                                     *)
(*                                                                         *)
(* Arithmetic.  Input coordinates are small non-negative integers, so      *)
(* every f32 sum, difference and product of the predicates (orientation,   *)
(* in_circumcircle, distance_sq between two input points) is an exact      *)
(* integer.  The only roundings are the divisions: the mean of the input   *)
(* (find_center) and the circumcircle delta.  Quotients are kept as exact  *)
(* fractions (numerator, common denominator).  Where two keys built from   *)
(* such a quotient are equal as fractions but belong to points at          *)
(* different coordinates, f32 rounding may order them either way, so the   *)
(* model lets either win; keys of points at the same coordinates are       *)
(* computed by the same operations on the same operands and stay equal,   *)
(* and so do keys whose quotients have a power-of-two denominator (no      *)
(* rounding happens).                                                      *)
(*                                                                         *)
(* Indices are 0-based as in the source; arrays are functions on 0..n-1.   *)
(***************************************************************************)
EXTENDS Integers, Sequences, FiniteSets, TLC

\* ---------------------------------------------------------------- bounds
\* Coordinates of the input points range over 0..MaxCoord.
MaxCoord == 2
\* The input has at most MaxPoints points.
MaxPoints == 6
\* calls of the iterator's next() made after it first returned None
MaxNoneCalls == 2
\* A stand-alone TrianglesDCEL is built with_capacity(MaxCap).
MaxCap == 2
\* The inputs drawn from WalkSites have at most MaxWalkPoints points.
MaxWalkPoints == 7
\* The inputs drawn from RetargetSites have at most MaxRetargetPoints points.
MaxRetargetPoints == 8
\* The inputs drawn from FlipSites have at most MaxFlipPoints points.
MaxFlipPoints == 6

\* ------------------------------------------------------ program constants
STACK_CAPACITY == 100

\* OptionIndex::none(): the index usize::MAX, written -1 here.
None == -1

VARIABLES
    points,          \* the caller's point array, read-only
    pc,              \* position in Delaunay::new / Hull::add_point / legalize
    result,          \* "running", "none" (None returned), "some" (Some(triangulation))
    triangles,       \* Delaunay.triangles: edge id -> start point id
    halfedges,       \* Delaunay.halfedges: edge id -> twin edge id or None (pre-sized)
    stack,           \* Delaunay.stack
    hull,            \* Hull: next, prev, hash_table, triangles, center, start
    indices,         \* the radially sorted non-seed indices (Delaunay::new)
    k,               \* position of the for loop over indices
    prev_point,      \* Delaunay::new's prev_point: <<>> for None, <<p>> for Some(p)
    loc,             \* locals of add_point / find_visible_edge / legalize
    points_to_triangles, \* TrianglesDCEL.points_to_triangles: <<>> for None, <<map>> for Some(map)
    around,          \* a TrianglesAroundPoint iterator: start, current, backward (and its p)
    yielded,         \* what the iterator's next() returned so far, in order
    last             \* the last call of an edge function: its name, argument and return value

\* the state of the DCEL read API, untouched by the triangulation
dcelvars == <<points_to_triangles, around, yielded, last>>

vars == <<points, pc, result, triangles, halfedges, stack, hull, indices, k, prev_point, loc,
          points_to_triangles, around, yielded, last>>

\* ------------------------------------------------------------- utilities
Abs(x) == IF x < 0 THEN -x ELSE x

Len0(f) == Cardinality(DOMAIN f)

NumPoints == Len0(points)

MinOf(S) == CHOOSE x \in S : \A y \in S : x <= y

IsPow2(n) == n \in {1, 2, 4, 8, 16, 32, 64, 128, 256, 512, 1024}

\* ------------------------------------------------------- geometric kernel
\* Point::distance_sq on two input points (exact)
DistanceSq(a, b) == (a[1] - b[1]) * (a[1] - b[1]) + (a[2] - b[2]) * (a[2] - b[2])

\* A point <<x, y>> has the f32 coordinates (x, y); a point <<x, y, q>>, q a
\* power of two, has the f32 coordinates (x / q, y / q).  Sums, differences
\* and products of such coordinates are exact in f32 as they are for whole
\* numbers, so the unit matters only where a value is compared with EPSILON.
UnitsPerOne(a) == IF Len(a) = 3 THEN a[3] ELSE 1

\* Point::approx_eq: |dx| <= EPSILON and |dy| <= EPSILON, EPSILON = 2^-23
ApproxEq(a, b) ==
    /\ Abs(a[1] - b[1]) * 8388608 <= UnitsPerOne(a)
    /\ Abs(a[2] - b[2]) * 8388608 <= UnitsPerOne(a)

\* Triangle::orientation: cross product of vectors 1--0 and 1--2
Orientation(A, B, C) ==
    LET v21x == A[1] - B[1]
        v21y == A[2] - B[2]
        v23x == C[1] - B[1]
        v23y == C[2] - B[2]
    IN  v21x * v23y - v21y * v23x

IsRightHanded(A, B, C) == Orientation(A, B, C) > 0

\* is_left_handed with <= in place of <
IsLeftHandedOrFlat(A, B, C) == Orientation(A, B, C) <= 0

IsLeftHanded(A, B, C) == Orientation(A, B, C) < 0

\* Triangle::in_circumcircle
InCircumcircle(A, B, C, P) ==
    LET dx == A[1] - P[1]
        dy == A[2] - P[2]
        ex == B[1] - P[1]
        ey == B[2] - P[2]
        fx == C[1] - P[1]
        fy == C[2] - P[2]
        ap == dx * dx + dy * dy
        bp == ex * ex + ey * ey
        cp == fx * fx + fy * fy
    IN  dx * (ey * cp - bp * fy) - dy * (ex * cp - bp * fx) + ap * (ex * fy - ey * fx) < 0

\* Triangle::circumcircle_delta: the pair (nx / d, ny / d); d = 0 stands for
\* the (INFINITY, INFINITY) the code returns for a degenerate triangle.
CircumcircleDelta(A, B, C) ==
    LET px == B[1] - A[1]
        py == B[2] - A[2]
        qx == C[1] - A[1]
        qy == C[2] - A[2]
        p2 == px * px + py * py
        q2 == qx * qx + qy * qy
        d  == 2 * (px * qy - py * qx)
    IN  IF d = 0 THEN [nx |-> 0, ny |-> 0, d |-> 0]
        ELSE [nx |-> qy * p2 - py * q2, ny |-> px * q2 - qx * p2, d |-> d]

\* Triangle::circumradius_sq as the fraction num / den (den = 0: infinite)
CircumradiusSq(A, B, C) ==
    LET c == CircumcircleDelta(A, B, C)
    IN  [num |-> c.nx * c.nx + c.ny * c.ny, den |-> c.d * c.d]

\* a / b < c / d for a, c >= 0 and b, d > 0, by comparing the integer parts
\* and then the reciprocals of the fractional parts (no product is formed,
\* so that nothing overflows)
RECURSIVE FracLess(_, _, _, _)
FracLess(a, b, c, d) ==
    IF a \div b # c \div d THEN a \div b < c \div d
    ELSE IF c % d = 0 THEN FALSE
    ELSE IF a % b = 0 THEN TRUE
    ELSE FracLess(d, c % d, b, a % b)

\* partial_cmp of two circumradius_sq values: Less / Equal as fractions
RadiusLess(r1, r2) ==
    IF r1.den = 0 THEN FALSE
    ELSE IF r2.den = 0 THEN TRUE
    ELSE FracLess(r1.num, r1.den, r2.num, r2.den)

\* Triangle::circumcenter: the point (x / d, y / d); d = 0 is (inf, inf)
Circumcenter(A, B, C) ==
    LET c == CircumcircleDelta(A, B, C)
    IN  IF c.d = 0 THEN [x |-> 0, y |-> 0, d |-> 0]
        ELSE [x |-> c.nx + A[1] * c.d, y |-> c.ny + A[2] * c.d, d |-> c.d]

\* distance_sq(P, center), times center.d^2 (all infinite when center.d = 0)
DistanceSqToCenter(P, c) ==
    IF c.d = 0 THEN 0
    ELSE (P[1] * c.d - c.x) * (P[1] * c.d - c.x) + (P[2] * c.d - c.y) * (P[2] * c.d - c.y)

\* angular_hash(point, center, size): (pseudo_angle(dx, dy) * size) as usize % size.
\* dx = sx / |d| and dy = sy / |d| below.  An infinite center gives
\* -inf / (inf + inf) = NaN, a point at the center gives 0 / 0 = NaN, and
\* NaN as usize is 0.
AngularHash(P, c, size) ==
    LET sgn == IF c.d < 0 THEN -1 ELSE 1
        sx  == sgn * (P[1] * c.d - c.x)
        sy  == sgn * (P[2] * c.d - c.y)
        m   == Abs(sx) + Abs(sy)
        \* pseudo_angle = num / (4 m), with p = sx / m
        num == IF sy > 0 THEN 3 * m - sx ELSE m + sx
    IN  IF c.d = 0 \/ m = 0 THEN 0
        ELSE ((num * size) \div (4 * m)) % size

\* F(v) with v evaluated once: a `let` binding of the source whose value is
\* used many times
Let(v, F(_)) == CHOOSE r \in {F(x) : x \in {v}} : TRUE

\* ---------------------------------------------------------- seed selection
\* find_center: the mean (sx / n, sy / n), kept as the sums and n
RECURSIVE SumCoord(_, _)
SumCoord(c, n) == IF n = 0 THEN 0 ELSE points[n - 1][c] + SumCoord(c, n - 1)

FindCenter == [sx |-> SumCoord(1, NumPoints), sy |-> SumCoord(2, NumPoints), n |-> NumPoints]

\* distance_sq(points[i], center) times n^2
DistanceSqToMean(i, center) ==
    LET dx == center.n * points[i][1] - center.sx
        dy == center.n * points[i][2] - center.sy
    IN  dx * dx + dy * dy

\* a min_by that keeps the last least element, as max_by does
LastMin(M, exact) ==
    IF M = {} THEN {}
    ELSE {i \in M : \A j \in M : i >= j}

\* The results Iterator::min_by can give over the candidates S: the first
\* (lowest-index) element with the least computed key.  M is the set of
\* candidates whose key is least as a fraction.  With exact keys the result
\* is the first of M; with rounded keys it is the first of the points of M
\* at some one coordinate.
FirstMin(M, exact) ==
    IF M = {} THEN {}
    ELSE IF exact THEN {MinOf(M)}
    ELSE {i \in M : \A j \in M : points[j] = points[i] => i <= j}

\* lines 383-387
\* lines 383-387: the point nearest the mean
SeedIdx ==
    LET S == DOMAIN points
    IN  Let(FindCenter,
            LAMBDA center :
              Let({i \in S : \A j \in S :
                    DistanceSqToMean(i, center) <= DistanceSqToMean(j, center)},
                  LAMBDA M : FirstMin(M, IsPow2(NumPoints))))

\* a nearest-point search that does not filter out the points at the seed
NearestIdxUnfiltered(s) ==
    Let({i \in DOMAIN points : i # s},
        LAMBDA S :
          Let({i \in S : \A j \in S :
                DistanceSq(points[i], points[s]) <= DistanceSq(points[j], points[s])},
              LAMBDA M : FirstMin(M, TRUE)))

\* lines 389-396: the point nearest the seed point among those whose
\* distance_sq from it is above EPSILON = 2^-23; integer keys, nothing is
\* rounded
NearestIdx(s) ==
    Let({i \in DOMAIN points :
                /\ i # s
                /\ Abs(DistanceSq(points[i], points[s])) * 8388608
                     > UnitsPerOne(points[s]) * UnitsPerOne(points[s])},
        LAMBDA S :
          Let({i \in S : \A j \in S :
                DistanceSq(points[i], points[s]) <= DistanceSq(points[j], points[s])},
              LAMBDA M : FirstMin(M, TRUE)))

\* lines 398-409: the point giving the least circumradius with the two
ThirdIdx(s, n) ==
    LET S == {i \in DOMAIN points : i # s /\ i # n}
    IN  Let([i \in S |-> CircumradiusSq(points[s], points[n], points[i])],
            LAMBDA R :
              Let({i \in S : \A j \in S : ~RadiusLess(R[j], R[i])},
                  LAMBDA M :
                    FirstMin(M, \A i \in M : R[i].den = 0 \/ IsPow2(Abs(CircumcircleDelta(points[s], points[n], points[i]).d)))))

\* find_seed_triangle: the set of results it can give; <<>> stands for None
\* (one of the three `?` returned early)
FindSeedTriangle ==
    Let(UNION { UNION { { IF IsRightHanded(points[s], points[n], points[t])
                          THEN <<s, n, t>> ELSE <<s, t, n>> : t \in ThirdIdx(s, n) }
                        : n \in NearestIdx(s) } : s \in SeedIdx },
        LAMBDA full : IF full = {} THEN {<<>>} ELSE full)

\* ------------------------------------------------------------------ dcel
\* a next_edge that never wraps around
NextEdgeNoWrap(e) == e + 1

\* TrianglesDCEL::next_edge
NextEdge(e) == IF e % 3 = 2 THEN e - 2 ELSE e + 1

\* TrianglesDCEL::prev_edge
PrevEdge(e) == IF e % 3 = 0 THEN e + 2 ELSE e - 1

\* TrianglesDCEL::triangle_first_edge
TriangleFirstEdge(e) == e - (e % 3)

\* ------------------------------------------------------------ radial sort
\* the non-seed indices left in index order, unsorted
IndexOrder(seed) ==
    LET rest == {i \in DOMAIN points : i # seed[1] /\ i # seed[2] /\ i # seed[3]}
        m == Cardinality(rest)
    IN  {o \in [1..m -> rest] : \A a, b \in 1..m : a < b => o[a] < o[b]}

\* lines 441-456: the orders sort_by (stable) can give the non-seed indices.
\* Keys are distance_sq to the seed circumcenter.
SortedIndices(seed) ==
    LET rest == {i \in DOMAIN points : i # seed[1] /\ i # seed[2] /\ i # seed[3]}
        m == Cardinality(rest)
    IN  Let(Circumcenter(points[seed[1]], points[seed[2]], points[seed[3]]),
            LAMBDA c :
              Let([i \in rest |-> DistanceSqToCenter(points[i], c)],
                  LAMBDA key :
                    {o \in [1..m -> rest] :
                        /\ \A a, b \in 1..m : a # b => o[a] # o[b]
                        /\ \A a, b \in 1..m : a < b =>
                             /\ key[o[a]] <= key[o[b]]
                             /\ (key[o[a]] = key[o[b]] /\ (c.d = 0 \/ IsPow2(Abs(c.d)) \/ points[o[a]] = points[o[b]]))
                                  => o[a] < o[b]}))

\* ------------------------------------------------------------------- hull
\* Hull::add_hash, on the table alone
HashInsert(table, center, index) ==
    [table EXCEPT ![AngularHash(points[index], center, Len0(table))] = index]

\* an add_hash that writes nothing
AddHashNothing(h, index) == h

\* Hull::add_hash
AddHash(h, index) ==
    [h EXCEPT !.hash_table = HashInsert(h.hash_table, h.center, index)]

\* ceil(sqrt(capacity))
RECURSIVE CeilSqrtFrom(_, _)
CeilSqrtFrom(n, r) == IF r * r >= n THEN r ELSE CeilSqrtFrom(n, r + 1)

TableSize(capacity) == CeilSqrtFrom(capacity, 0)

\* Hull::new
HullNew(seed) ==
    LET capacity == NumPoints
        table_size == TableSize(capacity)
        empty == [s \in 0..table_size - 1 |-> None]
    IN  Let(Circumcenter(points[seed[1]], points[seed[2]], points[seed[3]]),
            LAMBDA center :
        [ next |-> [p \in 0..capacity - 1 |->
                      IF p = seed[1] THEN seed[2]
                      ELSE IF p = seed[2] THEN seed[3]
                      ELSE IF p = seed[3] THEN seed[1] ELSE 0],
          prev |-> [p \in 0..capacity - 1 |->
                      IF p = seed[1] THEN seed[3]
                      ELSE IF p = seed[2] THEN seed[1]
                      ELSE IF p = seed[3] THEN seed[2] ELSE 0],
          hash_table |-> Let(HashInsert(empty, center, seed[1]), LAMBDA t1 :
                         Let(HashInsert(t1, center, seed[2]), LAMBDA t2 :
                             HashInsert(t2, center, seed[3]))),
          triangles |-> [p \in 0..capacity - 1 |->
                      IF p = seed[1] THEN 0
                      ELSE IF p = seed[2] THEN 1
                      ELSE IF p = seed[3] THEN 2 ELSE None],
          center |-> center,
          start |-> seed[1] ])

NoHull == [next |-> <<>>, prev |-> <<>>, hash_table |-> <<>>, triangles |-> <<>>,
           center |-> [x |-> 0, y |-> 0, d |-> 0], start |-> 0]

\* ------------------------------------------------------------------- mesh
\* a twin table one triangle short
WithCapacityShort(cap) == [e \in 0..(cap - 1) * 3 - 1 |-> None]

\* Delaunay::with_capacity: halfedges pre-sized to cap * 3 entries of None
WithCapacity(cap) == [e \in 0..cap * 3 - 1 |-> None]

\* Does add_triangle index halfedges out of bounds (a panic)?
AddTrianglePanics(hes, links) ==
    LET t == Len0(triangles)
    IN  \E i \in 1..3 : links[i] # None /\ (t + i - 1 >= Len0(hes) \/ links[i] >= Len0(hes))

\* Delaunay::add_triangle, the vertex table
PushTriangle(tris, vertices) ==
    LET t == Len0(tris)
    IN  [e \in 0..t + 2 |-> IF e < t THEN tris[e] ELSE vertices[e - t + 1]]

\* an add_triangle that sets halfedges[t + i] only
LinkTriangleOneWay(hes, t, links) ==
    [e \in DOMAIN hes |->
        IF \E i \in 1..3 : links[i] # None /\ e = t + i - 1
            THEN links[e - t + 1]
        ELSE hes[e]]

\* Delaunay::add_triangle, the twin table: for each Some(e) at position i,
\* halfedges[t + i] := e and halfedges[e] := t + i
LinkTriangle(hes, t, links) ==
    [e \in DOMAIN hes |->
        IF \E i \in 1..3 : links[i] # None /\ e = t + i - 1
            THEN links[e - t + 1]
        ELSE IF \E i \in 1..3 : links[i] = e /\ e # None
            THEN t + (CHOOSE i \in 1..3 : links[i] = e) - 1
        ELSE hes[e]]

\* steps counts the iterations of find_visible_edge's walk that moved on
\* (`edge = next`, line 272); the code keeps no such counter
NoLoc == [index |-> None, start |-> None, end |-> None, should_walk_back |-> FALSE,
          fv_start |-> None, edge |-> None, next |-> None, prev |-> None,
          t |-> None, ret |-> "", ar |-> 0, a |-> None, b |-> None, steps |-> 0]

\* no iterator has been made
NoAround == [p |-> None, start |-> None, current |-> None, backward |-> FALSE]

\* no edge function has been called
NoLast == [op |-> "none", e |-> None, r |-> <<>>]

\* ------------------------------------------------------------------ input
\* The inputs: every point array of at most MaxPoints grid points listed in
\* lexicographic order of (x, y), duplicates included.  Site v of the grid is
\* the point (v \div (MaxCoord + 1), v % (MaxCoord + 1)).
RECURSIVE SortedSeqs(_, _)
SortedSeqs(n, lo) ==
    IF n = 0 THEN {<<>>}
    ELSE UNION { { <<v>> \o s : s \in SortedSeqs(n - 1, v) } :
                 v \in lo..((MaxCoord + 1) * (MaxCoord + 1) - 1) }

PointOf(v) == <<v \div (MaxCoord + 1), v % (MaxCoord + 1)>>

Inputs ==
    UNION { { [i \in 0..n - 1 |-> PointOf(s[i + 1])] : s \in SortedSeqs(n, 0) } :
            n \in 0..MaxPoints }

\* A second family of inputs, on sites outside the MaxCoord grid: every point
\* array of at most MaxWalkPoints points drawn from WalkSites, listed in the
\* order of WalkSites, duplicates included.
WalkSites == <<<<0, 4>>, <<0, 7>>, <<0, 8>>, <<2, 0>>, <<2, 1>>, <<2, 2>>, <<3, 8>>>>

RECURSIVE SortedSeqsTo(_, _, _)
SortedSeqsTo(n, lo, hi) ==
    IF n = 0 THEN {<<>>}
    ELSE UNION { { <<v>> \o s : s \in SortedSeqsTo(n - 1, v, hi) } : v \in lo..hi }

WalkInputs ==
    UNION { { [i \in 0..n - 1 |-> WalkSites[s[i + 1]]] :
              s \in SortedSeqsTo(n, 1, Len(WalkSites)) } :
            n \in 0..MaxWalkPoints }

\* A third family of inputs: every point array of at most MaxRetargetPoints
\* points drawn from RetargetSites, listed in the order of RetargetSites,
\* duplicates included.
RetargetSites == <<<<10, 5>>, <<5, 5>>, <<0, 9>>, <<1, 8>>, <<5, 11>>, <<12, 2>>, <<4, 0>>, <<13, 1>>>>

RetargetInputs ==
    UNION { { [i \in 0..n - 1 |-> RetargetSites[s[i + 1]]] :
              s \in SortedSeqsTo(n, 1, Len(RetargetSites)) } :
            n \in 0..MaxRetargetPoints }

\* A fourth family of inputs: every point array of at most MaxFlipPoints
\* points drawn from FlipSites, listed in the order of FlipSites, duplicates
\* included. On the first five sites the forward walk of the last insertion
\* adds a triangle that legalize flips.
FlipSites == <<<<10, 11>>, <<13, 4>>, <<1, 11>>, <<5, 11>>, <<11, 8>>, <<2, 2>>>>

FlipInputs ==
    UNION { { [i \in 0..n - 1 |-> FlipSites[s[i + 1]]] :
              s \in SortedSeqsTo(n, 1, Len(FlipSites)) } :
            n \in 0..MaxFlipPoints }

\* ------------------------------------------------------------------ start
Init ==
    /\ points \in Inputs
    /\ pc = "new"
    /\ result = "running"
    /\ triangles = <<>>
    /\ halfedges = <<>>
    /\ stack = <<>>
    /\ hull = NoHull
    /\ indices = <<>>
    /\ k = 1
    /\ prev_point = <<>>
    /\ loc = NoLoc
    /\ points_to_triangles = <<>>
    /\ around = NoAround
    /\ yielded = <<>>
    /\ last = NoLast

\* Delaunay::new, lines 438-465: seed selection, radial sort, Hull::new,
\* with_capacity and the seed triangle.  find_seed_triangle's `?` returns None.
New ==
    /\ pc = "new"
    /\ UNCHANGED dcelvars
    /\ \E seed \in FindSeedTriangle :
         IF seed = <<>>
         THEN /\ result' = "none"
              /\ pc' = "done"
              /\ UNCHANGED <<triangles, halfedges, stack, hull, indices>>
         ELSE \E order \in SortedIndices(seed) :
              /\ indices' = order
              /\ hull' = HullNew(seed)
              /\ halfedges' = WithCapacity(2 * NumPoints - 3 - 2)
              /\ triangles' = PushTriangle(<<>>, seed)
              /\ stack' = <<>>
              /\ result' = "running"
              /\ pc' = "loop"
    /\ UNCHANGED <<points, k, prev_point, loc>>

\* a skip that enters the skipped point in the hash table
SkipDuplicateHashed ==
    /\ pc = "loop"
    /\ UNCHANGED dcelvars
    /\ k <= Len(indices)
    /\ prev_point # <<>>
    /\ ApproxEq(prev_point[1], points[indices[k]])
    /\ k' = k + 1
    /\ hull' = [hull EXCEPT !.hash_table = HashInsert(hull.hash_table, hull.center, indices[k])]
    /\ UNCHANGED <<points, pc, result, triangles, halfedges, stack, indices,
                   prev_point, loc>>

\* Delaunay::new, lines 467-474: the next point is approx_eq to the previous
\* one and is skipped (continue)
SkipDuplicate ==
    /\ pc = "loop"
    /\ UNCHANGED dcelvars
    /\ k <= Len(indices)
    /\ prev_point # <<>>
    /\ ApproxEq(prev_point[1], points[indices[k]])
    /\ k' = k + 1
    /\ UNCHANGED <<points, pc, result, triangles, halfedges, stack, hull, indices,
                   prev_point, loc>>

\* add_point returned: Delaunay::new line 477 and the next iteration
Returned(point) ==
    /\ prev_point' = <<point>>
    /\ k' = k + 1
    /\ loc' = NoLoc
    /\ pc' = "loop"

\* find_visible_edge, lines 245-255: the slot the probe loop leaves in `start`:
\* the first slot, from the hash on, that holds a point e with e != next[e],
\* or the last slot probed when there is none
ProbeStart(h, point) ==
    LET table_size == Len0(h.hash_table)
        hash == AngularHash(point, h.center, table_size)
        slot(i) == h.hash_table[(hash + i) % table_size]
        alive == {i \in 0..table_size - 1 : slot(i) # None /\ slot(i) # h.next[slot(i)]}
    IN  IF alive # {} THEN slot(MinOf(alive)) ELSE slot(table_size - 1)

\* Delaunay::new lines 467-476 entering Hull::add_point, and find_visible_edge
\* lines 242-261: the hash probe.  `start.get()?` returns None on an empty slot,
\* and add_point then returns at line 290.
FindVisibleEdgeProbe ==
    /\ pc = "loop"
    /\ UNCHANGED dcelvars
    /\ k <= Len(indices)
    /\ ~(prev_point # <<>> /\ ApproxEq(prev_point[1], points[indices[k]]))
    /\ LET index == indices[k]
           start == ProbeStart(hull, points[index])
       IN  IF start = None
           THEN Returned(points[index])
           ELSE /\ loc' = [NoLoc EXCEPT !.index = index,
                                        !.fv_start = hull.prev[start],
                                        !.edge = hull.prev[start]]
                /\ pc' = "visible"
                /\ UNCHANGED <<prev_point, k>>
    /\ UNCHANGED <<points, result, triangles, halfedges, stack, hull, indices>>

\* a walk that never notices it is back at its starting point
WalkedAroundNever(edge, start) == FALSE

\* find_visible_edge, lines 272-276: the walk is back at its starting point
WalkedAround(edge, start) == edge = start

\* find_visible_edge, lines 263-282: one iteration of the walk along the hull
FindVisibleEdgeStep ==
    /\ pc = "visible"
    /\ UNCHANGED dcelvars
    /\ LET point == points[loc.index]
           next == hull.next[loc.edge]
       IN  IF IsLeftHanded(point, points[loc.edge], points[next])
           THEN \* Some((edge, edge == start))
                /\ loc' = [loc EXCEPT !.start = loc.edge,
                                      !.should_walk_back = (loc.edge = loc.fv_start)]
                /\ pc' = "first"
                /\ UNCHANGED <<prev_point, k>>
           ELSE IF WalkedAround(next, loc.fv_start)
           THEN \* return None: add_point returns at line 290
                Returned(point)
           ELSE /\ loc' = [loc EXCEPT !.edge = next, !.steps = loc.steps + 1]
                /\ UNCHANGED <<pc, prev_point, k>>
    /\ UNCHANGED <<points, result, triangles, halfedges, stack, hull, indices>>

\* A call of add_triangle(vertices, links) followed by the entry of
\* legalize(t + 2) (stack.push(index), ar = 0); `ret` names the call site.
\* An out-of-bounds index into halfedges panics.
AddTriangleAndLegalize(vertices, links, ret, newloc) ==
    LET t == Len0(triangles)
    IN  IF AddTrianglePanics(halfedges, links)
        THEN /\ pc' = "panic"
             /\ result' = "panic"
             /\ UNCHANGED <<triangles, halfedges, stack, loc>>
        ELSE /\ triangles' = PushTriangle(triangles, vertices)
             /\ halfedges' = LinkTriangle(halfedges, t, links)
             /\ stack' = Append(stack, t + 2)
             /\ loc' = [newloc EXCEPT !.t = t, !.ret = ret, !.ar = 0]
             /\ pc' = "legalize"
             /\ UNCHANGED result

\* add_point, lines 293-304: the first triangle [start, index, end]
AddFirstTriangle ==
    /\ pc = "first"
    /\ UNCHANGED dcelvars
    /\ LET end == hull.next[loc.start]
       IN  AddTriangleAndLegalize(<<loc.start, loc.index, end>>,
                                  <<None, None, hull.triangles[loc.start]>>,
                                  "first", [loc EXCEPT !.end = end])
    /\ UNCHANGED <<points, hull, indices, k, prev_point>>

\* add_point, lines 307-323: one iteration of the forward walk
ForwardStep ==
    /\ pc = "forward"
    /\ UNCHANGED dcelvars
    /\ LET point == points[loc.index]
           next == hull.next[loc.end]
       IN  IF ~IsRightHanded(point, points[next], points[loc.end])
           THEN /\ pc' = IF loc.should_walk_back THEN "backward" ELSE "splice"
                /\ UNCHANGED <<result, triangles, halfedges, stack, loc>>
           ELSE AddTriangleAndLegalize(<<loc.end, loc.index, next>>,
                                       <<hull.triangles[loc.index], None, hull.triangles[loc.end]>>,
                                       "forward", [loc EXCEPT !.next = next])
    /\ UNCHANGED <<points, hull, indices, k, prev_point>>

\* add_point, lines 328-345: one iteration of the backward walk
BackwardStep ==
    /\ pc = "backward"
    /\ UNCHANGED dcelvars
    /\ LET point == points[loc.index]
           prev == hull.prev[loc.start]
       IN  IF ~IsRightHanded(point, points[loc.start], points[prev])
           THEN /\ pc' = "splice"
                /\ UNCHANGED <<result, triangles, halfedges, stack, loc>>
           ELSE AddTriangleAndLegalize(<<prev, loc.index, loc.start>>,
                                       <<None, hull.triangles[loc.start], hull.triangles[prev]>>,
                                       "backward", [loc EXCEPT !.prev = prev])
    /\ UNCHANGED <<points, hull, indices, k, prev_point>>

\* --------------------------------------------------------------- legalize
\* a legalize that never finds an edge illegal
IllegalNever(p0, pr, pl, p1) == FALSE

\* legalize, line 532: is the edge between triangle (p0, pr, pl) and p1 illegal?
Illegal(p0, pr, pl, p1) ==
    InCircumcircle(points[p0], points[pr], points[pl], points[p1])

\* a flip that rewrites the origin of a only
FlipVerticesOnlyA(tris, a, b, p0, p1) == [tris EXCEPT ![a] = p1]

\* legalize, lines 538-539: the flip rewrites the origins of a and b
FlipVertices(tris, a, b, p0, p1) == [tris EXCEPT ![a] = p1, ![b] = p0]

\* a second half of a flip that leaves the twin of b as it was
FlipFinishKeepB(hes, stk, a, b) ==
    LET a0 == a - (a % 3)
        ar == a0 + ((a + 2) % 3)
        b0 == b - (b % 3)
        bl == b0 + ((b + 2) % 3)
        br == b0 + ((b + 1) % 3)
        har == hes[ar]
        h2 == IF har # None THEN [hes EXCEPT ![har] = b] ELSE hes
        h3 == [h2 EXCEPT ![ar] = bl]
        h4 == [h3 EXCEPT ![bl] = ar]
    IN  [halfedges |-> h4,
         stack |-> IF Len(stk) >= STACK_CAPACITY - 1 THEN stk
                   ELSE Append(Append(stk, br), a)]

\* a second half of a flip that pushes br and a whatever the size of the stack
FlipFinishAlwaysPush(hes, stk, a, b) ==
    LET a0 == a - (a % 3)
        ar == a0 + ((a + 2) % 3)
        b0 == b - (b % 3)
        bl == b0 + ((b + 2) % 3)
        br == b0 + ((b + 1) % 3)
        har == hes[ar]
        h1 == [hes EXCEPT ![b] = har]
        h2 == IF har # None THEN [h1 EXCEPT ![har] = b] ELSE h1
        h3 == [h2 EXCEPT ![ar] = bl]
        h4 == [h3 EXCEPT ![bl] = ar]
    IN  [halfedges |-> h4, stack |-> Append(Append(stk, br), a)]

\* legalize, lines 564-579: the second half of a flip of edge a with twin b:
\* b takes ar's twin, ar and bl become twins, and br and a are pushed unless
\* the stack is full
FlipFinish(hes, stk, a, b) ==
    LET a0 == a - (a % 3)
        ar == a0 + ((a + 2) % 3)
        b0 == b - (b % 3)
        bl == b0 + ((b + 2) % 3)
        br == b0 + ((b + 1) % 3)
        har == hes[ar]
        h1 == [hes EXCEPT ![b] = har]
        h2 == IF har # None THEN [h1 EXCEPT ![har] = b] ELSE h1
        h3 == [h2 EXCEPT ![ar] = bl]
        h4 == [h3 EXCEPT ![bl] = ar]
    IN  [halfedges |-> h4,
         stack |-> IF Len(stk) >= STACK_CAPACITY - 1 THEN stk
                   ELSE Append(Append(stk, br), a)]

\* legalize, lines 514-548: one iteration of `while let Some(a) = stack.pop()`
\* up to the search of the hull (which HullWalkStep makes), or a whole
\* iteration when no hull edge is replaced
LegalizeStep ==
    /\ pc = "legalize"
    /\ UNCHANGED dcelvars
    /\ stack # <<>>
    /\ LET a  == stack[Len(stack)]
           stk == SubSeq(stack, 1, Len(stack) - 1)
           a0 == a - (a % 3)
           ar == a0 + ((a + 2) % 3)
           b  == halfedges[a]
           b0 == b - (b % 3)
           al == a0 + ((a + 1) % 3)
           bl == b0 + ((b + 2) % 3)
           p0 == triangles[ar]
           pr == triangles[a]
           pl == triangles[al]
           p1 == triangles[bl]
           illegal == Illegal(p0, pr, pl, p1)
       IN  IF b = None \/ ~illegal
           THEN \* continue
                /\ stack' = stk
                /\ loc' = [loc EXCEPT !.ar = ar]
                /\ UNCHANGED <<pc, triangles, halfedges>>
           ELSE LET tris == FlipVertices(triangles, a, b, p0, p1)
                    hbl == halfedges[bl]
                    h1 == [halfedges EXCEPT ![a] = hbl]
                IN  IF hbl # None
                    THEN LET fin == FlipFinish([h1 EXCEPT ![hbl] = a], stk, a, b)
                         IN  /\ triangles' = tris
                             /\ halfedges' = fin.halfedges
                             /\ stack' = fin.stack
                             /\ loc' = [loc EXCEPT !.ar = ar]
                             /\ UNCHANGED pc
                    ELSE /\ triangles' = tris
                         /\ halfedges' = h1
                         /\ stack' = stk
                         /\ loc' = [loc EXCEPT !.ar = ar, !.a = a, !.b = b, !.edge = hull.start]
                         /\ pc' = "hullwalk"
    /\ UNCHANGED <<points, result, hull, indices, k, prev_point>>

\* legalize, lines 550-561: one iteration of the search for the hull point
\* whose boundary triangle is bl, then the rest of the flip when the loop breaks
HullWalkStep ==
    /\ pc = "hullwalk"
    /\ UNCHANGED dcelvars
    /\ LET a == loc.a
           b == loc.b
           bl == (b - (b % 3)) + ((b + 2) % 3)
           next == hull.next[loc.edge]
           fin == FlipFinish(halfedges, stack, a, b)
           done == [loc EXCEPT !.a = None, !.b = None, !.edge = None]
       IN  IF hull.triangles[loc.edge] = bl
           THEN /\ hull' = [hull EXCEPT !.triangles[loc.edge] = a]
                /\ halfedges' = fin.halfedges
                /\ stack' = fin.stack
                /\ loc' = done
                /\ pc' = "legalize"
           ELSE IF next = hull.start
           THEN /\ halfedges' = fin.halfedges
                /\ stack' = fin.stack
                /\ loc' = done
                /\ pc' = "legalize"
                /\ UNCHANGED hull
           ELSE /\ loc' = [loc EXCEPT !.edge = next]
                /\ UNCHANGED <<pc, halfedges, stack, hull>>
    /\ UNCHANGED <<points, result, triangles, indices, k, prev_point>>

\* a return of legalize after which the forward walk leaves the slot of the
\* point it passes as it was
LegalizeReturnNoRetire ==
    /\ pc = "legalize"
    /\ UNCHANGED dcelvars
    /\ stack = <<>>
    /\ \/ /\ loc.ret = "first"
          /\ hull' = [hull EXCEPT !.triangles = [hull.triangles EXCEPT ![loc.index] = loc.ar,
                                                                       ![loc.start] = loc.t]]
          /\ loc' = [loc EXCEPT !.t = None, !.ret = "", !.ar = 0]
          /\ pc' = "forward"
       \/ /\ loc.ret = "forward"
          /\ hull' = [hull EXCEPT !.triangles[loc.index] = loc.ar]
          /\ loc' = [loc EXCEPT !.end = loc.next, !.next = None, !.t = None, !.ret = "", !.ar = 0]
          /\ pc' = "forward"
       \/ /\ loc.ret = "backward"
          /\ hull' = [hull EXCEPT !.triangles[loc.prev] = loc.t,
                                  !.next[loc.start] = loc.start]
          /\ loc' = [loc EXCEPT !.start = loc.prev, !.prev = None, !.t = None, !.ret = "", !.ar = 0]
          /\ pc' = "backward"
    /\ UNCHANGED <<points, result, triangles, halfedges, stack, indices, k, prev_point>>

\* legalize returns ar (line 582) to its call site in add_point:
\* lines 304-305, lines 323-325 or lines 345-349
LegalizeReturn ==
    /\ pc = "legalize"
    /\ UNCHANGED dcelvars
    /\ stack = <<>>
    /\ \/ /\ loc.ret = "first"
          /\ hull' = [hull EXCEPT !.triangles = [hull.triangles EXCEPT ![loc.index] = loc.ar,
                                                                       ![loc.start] = loc.t]]
          /\ loc' = [loc EXCEPT !.t = None, !.ret = "", !.ar = 0]
          /\ pc' = "forward"
       \/ /\ loc.ret = "forward"
          /\ hull' = [hull EXCEPT !.triangles[loc.index] = loc.ar,
                                  !.next[loc.end] = loc.end]
          /\ loc' = [loc EXCEPT !.end = loc.next, !.next = None, !.t = None, !.ret = "", !.ar = 0]
          /\ pc' = "forward"
       \/ /\ loc.ret = "backward"
          /\ hull' = [hull EXCEPT !.triangles[loc.prev] = loc.t,
                                  !.next[loc.start] = loc.start]
          /\ loc' = [loc EXCEPT !.start = loc.prev, !.prev = None, !.t = None, !.ret = "", !.ar = 0]
          /\ pc' = "backward"
    /\ UNCHANGED <<points, result, triangles, halfedges, stack, indices, k, prev_point>>

\* a splice that leaves prev[end] as it was
SpliceNoPrevEnd ==
    /\ pc = "splice"
    /\ UNCHANGED dcelvars
    /\ LET h1 == [hull EXCEPT !.start = loc.start,
                              !.next = [hull.next EXCEPT ![loc.start] = loc.index,
                                                         ![loc.index] = loc.end],
                              !.prev = [hull.prev EXCEPT ![loc.index] = loc.start]]
       IN  hull' = AddHash(AddHash(h1, loc.index), loc.start)
    /\ Returned(points[loc.index])
    /\ UNCHANGED <<points, result, triangles, halfedges, stack, indices>>

\* add_point, lines 353-361, and its return to Delaunay::new
Splice ==
    /\ pc = "splice"
    /\ UNCHANGED dcelvars
    /\ LET h1 == [hull EXCEPT !.start = loc.start,
                              !.next = [hull.next EXCEPT ![loc.start] = loc.index,
                                                         ![loc.index] = loc.end],
                              !.prev = [hull.prev EXCEPT ![loc.end] = loc.index,
                                                         ![loc.index] = loc.start]]
       IN  hull' = AddHash(AddHash(h1, loc.index), loc.start)
    /\ Returned(points[loc.index])
    /\ UNCHANGED <<points, result, triangles, halfedges, stack, indices>>

\* Delaunay::new, lines 467-481: the for loop is exhausted
Finish ==
    /\ pc = "loop"
    /\ UNCHANGED dcelvars
    /\ k > Len(indices)
    /\ result' = "some"
    /\ pc' = "done"
    /\ UNCHANGED <<points, triangles, halfedges, stack, hull, indices, k, prev_point, loc>>

Next ==
    \/ New
    \/ SkipDuplicate
    \/ FindVisibleEdgeProbe
    \/ FindVisibleEdgeStep
    \/ AddFirstTriangle
    \/ ForwardStep
    \/ BackwardStep
    \/ LegalizeStep
    \/ HullWalkStep
    \/ LegalizeReturn
    \/ Splice
    \/ Finish

Spec == Init /\ [][Next]_vars

\* Delaunay::new is one sequential call: it keeps running until it returns
LiveSpec == Spec /\ WF_vars(Next)

\* Delaunay::new on the inputs drawn from WalkSites
WalkInit ==
    /\ points \in WalkInputs
    /\ pc = "new"
    /\ result = "running"
    /\ triangles = <<>>
    /\ halfedges = <<>>
    /\ stack = <<>>
    /\ hull = NoHull
    /\ indices = <<>>
    /\ k = 1
    /\ prev_point = <<>>
    /\ loc = NoLoc
    /\ points_to_triangles = <<>>
    /\ around = NoAround
    /\ yielded = <<>>
    /\ last = NoLast

WalkSpec == WalkInit /\ [][Next]_vars

WalkLiveSpec == WalkSpec /\ WF_vars(Next)

\* Delaunay::new on the inputs drawn from RetargetSites
RetargetInit ==
    /\ points \in RetargetInputs
    /\ pc = "new"
    /\ result = "running"
    /\ triangles = <<>>
    /\ halfedges = <<>>
    /\ stack = <<>>
    /\ hull = NoHull
    /\ indices = <<>>
    /\ k = 1
    /\ prev_point = <<>>
    /\ loc = NoLoc
    /\ points_to_triangles = <<>>
    /\ around = NoAround
    /\ yielded = <<>>
    /\ last = NoLast

RetargetSpec == RetargetInit /\ [][Next]_vars

\* Delaunay::new on the fourth family of inputs
FlipInit ==
    /\ points \in FlipInputs
    /\ pc = "new"
    /\ result = "running"
    /\ triangles = <<>>
    /\ halfedges = <<>>
    /\ stack = <<>>
    /\ hull = NoHull
    /\ indices = <<>>
    /\ k = 1
    /\ prev_point = <<>>
    /\ loc = NoLoc
    /\ points_to_triangles = <<>>
    /\ around = NoAround
    /\ yielded = <<>>
    /\ last = NoLast

FlipSpec == FlipInit /\ [][Next]_vars

\* ------------------------------------------------------ dcel: the read API
\* The mesh a successful Delaunay::new returns is the DCEL: its vertices are
\* `triangles`, its twins are `halfedges`.

MaxOf(S) == CHOOSE x \in S : \A y \in S : x >= y

\* TrianglesDCEL::twin
Twin(e) == halfedges[e]

\* init_revmap, line 225 and 228: the map has vertices.len() entries, so a
\* vertex p >= vertices.len() makes map[p.0] index out of bounds (a panic)
InitRevmapPanics == \E e \in DOMAIN triangles : triangles[e] >= Len0(triangles)

\* init_revmap, lines 225-229: all entries 0, then map[p] = t for every edge
\* t in order, later writes overwriting earlier ones
RevMap ==
    [q \in 0..Len0(triangles) - 1 |->
        LET E == {e \in DOMAIN triangles : triangles[e] = q}
        IN  IF E = {} THEN 0 ELSE MaxOf(E)]

\* a panic in the read API; what: "expect" (no map yet, line 209),
\* "revmap index" (line 228) or "around index" (line 209)
DcelPanic(what) ==
    /\ pc' = "panic"
    /\ result' = what

\* TrianglesDCEL::init_revmap, called once on the returned mesh
InitRevmap ==
    /\ pc = "done"
    /\ result = "some"
    /\ points_to_triangles = <<>>
    /\ IF InitRevmapPanics
       THEN DcelPanic("revmap index") /\ UNCHANGED points_to_triangles
       ELSE points_to_triangles' = <<RevMap>> /\ UNCHANGED <<pc, result>>
    /\ UNCHANGED <<points, triangles, halfedges, stack, hull, indices, k, prev_point,
                   loc, around, yielded, last>>

\* TrianglesDCEL::triangles_around_point(p) for an index p of the point array
TrianglesAroundPoint ==
    /\ pc = "done"
    /\ result = "some"
    /\ \E p \in DOMAIN points :
         IF points_to_triangles = <<>>
         THEN DcelPanic("expect") /\ UNCHANGED <<around, yielded>>
         ELSE IF p >= Len0(points_to_triangles[1])
         THEN DcelPanic("around index") /\ UNCHANGED <<around, yielded>>
         ELSE /\ around' = [p |-> p, start |-> points_to_triangles[1][p],
                            current |-> points_to_triangles[1][p], backward |-> FALSE]
              /\ yielded' = <<>>
              /\ UNCHANGED <<pc, result>>
    /\ UNCHANGED <<points, triangles, halfedges, stack, hull, indices, k, prev_point,
                   loc, points_to_triangles, last>>

\* a variant of the step that never compares current with start
AroundStepNoStop(it) ==
    LET res == it.current
    IN  IF it.backward
        THEN [it EXCEPT !.current = Twin(PrevEdge(res))]
        ELSE LET t  == Twin(res)
                 c1 == IF t = None THEN None ELSE NextEdge(t)
                 c2 == IF c1 = None THEN Twin(PrevEdge(it.start)) ELSE c1
             IN  [it EXCEPT !.current = c2, !.backward = (c1 = None)]

\* TrianglesAroundPoint::next, lines 250-267, when current is Some(result)
AroundStep(it) ==
    LET res == it.current
    IN  IF it.backward
        THEN LET c == Twin(PrevEdge(res))
             IN  [it EXCEPT !.current = IF c = it.start THEN None ELSE c]
        ELSE LET t  == Twin(res)
                 c1 == IF t = None THEN None ELSE NextEdge(t)
                 c2 == IF c1 = None THEN Twin(PrevEdge(it.start)) ELSE c1
             IN  [it EXCEPT !.current = IF c2 = it.start THEN None ELSE c2,
                            !.backward = (c1 = None)]

NoneCount(seq) == Cardinality({i \in DOMAIN seq : seq[i] = None})

\* TrianglesAroundPoint::next: returns current (None leaves the iterator as
\* it is) and advances
AroundNext ==
    /\ pc = "done"
    /\ result = "some"
    /\ around # NoAround
    /\ NoneCount(yielded) < MaxNoneCalls
    /\ Len(yielded) < Len0(triangles) + MaxNoneCalls
    /\ yielded' = Append(yielded, around.current)
    /\ around' = IF around.current = None THEN around ELSE AroundStep(around)
    /\ UNCHANGED <<points, pc, result, triangles, halfedges, stack, hull, indices, k,
                   prev_point, loc, points_to_triangles, last>>

\* triangulate, then the read API on its result
FanNext ==
    \/ Next
    \/ InitRevmap
    \/ TrianglesAroundPoint
    \/ AroundNext

FanSpec == Init /\ [][FanNext]_vars

\* ================================================================== claims
\* Delaunay::new has returned Some(triangulation)
Success == pc = "done" /\ result = "some"

Edges == DOMAIN triangles

NumTriangles == Len0(triangles) \div 3

\* the point at the origin of edge e
Origin(e) == points[triangles[e]]

Coords == {points[i] : i \in DOMAIN points}

\* all input points lie on one line (or there are fewer than two sites)
AllCollinear == \A p, q, r \in Coords : Orientation(p, q, r) = 0

\* p is on the boundary of the convex hull of the input: some line through
\* p and another site has every site on one closed side
OnHullBoundary(p) ==
    \E q \in Coords \ {p} :
        \/ \A r \in Coords : Orientation(p, q, r) >= 0
        \/ \A r \in Coords : Orientation(p, q, r) <= 0

\* C1: in every successful result, for every edge e with a twin f, the vertex
\* opposite f in f's triangle is not strictly inside the circumcircle of the
\* triangle containing e.
C1_Delaunay ==
    Success =>
        \A e \in Edges : halfedges[e] # None =>
            LET f  == halfedges[e]
                t0 == TriangleFirstEdge(e)
            IN  ~InCircumcircle(Origin(t0), Origin(t0 + 1), Origin(t0 + 2), Origin(PrevEdge(f)))

\* a result of four or more triangles with an interior edge whose opposite
\* vertex lies strictly outside the circumcircle
C1_Witness ==
    /\ Success
    /\ NumTriangles >= 4
    /\ \E e \in Edges :
         /\ halfedges[e] # None
         /\ LET t0 == TriangleFirstEdge(e)
            IN  InCircumcircle(Origin(t0 + 2), Origin(t0 + 1), Origin(t0),
                               Origin(PrevEdge(halfedges[e])))

\* C2: triangulate returns None whenever all input points lie on one line.
C2_CollinearIsNone ==
    (pc = "done" /\ AllCollinear) => result = "none"

\* C3: in every successful result, every edge has no twin or is the twin of its twin.
C3_TwinSymmetry ==
    Success =>
        \A e \in Edges : halfedges[e] = None \/ halfedges[halfedges[e]] = e

C3_Witness ==
    /\ Success
    /\ NumTriangles >= 3
    /\ \E e \in Edges : halfedges[e] # None /\ halfedges[halfedges[e]] = e

\* C4: in every successful result, twinned edges share their endpoints in
\* reverse: if twin(e) = f then vertex(e) = vertex(next_edge(f)) and
\* vertex(f) = vertex(next_edge(e)).
C4_EdgeConsistency ==
    Success =>
        \A e \in Edges : halfedges[e] # None =>
            /\ triangles[e] = triangles[NextEdge(halfedges[e])]
            /\ triangles[halfedges[e]] = triangles[NextEdge(e)]

C4_Witness ==
    /\ Success
    /\ NumTriangles >= 4
    /\ \E e \in Edges : halfedges[e] # None /\ triangles[e] = triangles[NextEdge(halfedges[e])]

\* the edges of existing triangles that have no twin
BoundaryEdges == {e \in Edges : halfedges[e] = None}

\* the twinless edge that starts where twinless edge e ends
BoundarySucc(e) ==
    CHOOSE f \in BoundaryEdges : triangles[f] = triangles[NextEdge(e)]

RECURSIVE BoundaryOrbit(_, _)
BoundaryOrbit(e, seen) ==
    IF e \in seen THEN seen ELSE BoundaryOrbit(BoundarySucc(e), seen \cup {e})

\* C5: in every successful result the twinless edges form one simple closed
\* cycle (each ends at the origin of exactly one twinless edge, no two start
\* at the same point, following them visits all of them), the cycle is the
\* convex hull of the input (every site is on the inner side of every cycle
\* edge, every site on the hull boundary is a cycle vertex), and no site
\* strictly inside the hull has a twinless outgoing edge.
C5_HullClosure ==
    Success =>
        /\ \A e \in BoundaryEdges :
             Cardinality({f \in BoundaryEdges : triangles[f] = triangles[NextEdge(e)]}) = 1
        /\ \A e, f \in BoundaryEdges : e # f => triangles[e] # triangles[f]
        /\ \A e \in BoundaryEdges : BoundaryOrbit(e, {}) = BoundaryEdges
        /\ \A e \in BoundaryEdges : \A p \in Coords :
             Orientation(Origin(e), Origin(NextEdge(e)), p) >= 0
        /\ \A p \in Coords : OnHullBoundary(p) => \E e \in BoundaryEdges : Origin(e) = p
        /\ \A e \in BoundaryEdges : OnHullBoundary(Origin(e))

\* no two input points have the same coordinates
Distinct == \A i, j \in DOMAIN points : i # j => points[i] # points[j]

\* the number of input points on the boundary of the convex hull
HullCount == Cardinality({i \in DOMAIN points : OnHullBoundary(points[i])})

\* C6: for every successful result on N distinct points that are not all
\* collinear, the number of triangles is 2N - 2 - H, H the number of input
\* points on the convex hull boundary.
C6_TriangleCount ==
    (Success /\ Distinct /\ ~AllCollinear) =>
        NumTriangles = 2 * NumPoints - 2 - HullCount

\* five or more distinct points, one of them strictly inside the hull
C6_Witness ==
    /\ Success /\ Distinct /\ ~AllCollinear
    /\ NumPoints >= 5
    /\ HullCount < NumPoints
    /\ NumTriangles = 2 * NumPoints - 2 - HullCount

\* C7: in every successful result every triangle is strictly right-handed.
C7_RightHanded ==
    Success =>
        \A e \in Edges : e % 3 = 0 =>
            Orientation(Origin(e), Origin(e + 1), Origin(e + 2)) > 0

\* the point indices used as vertices of the mesh
UsedPoints == {triangles[e] : e \in Edges}

\* C8: for an input that is not all collinear and contains exact duplicates,
\* every distinct coordinate is the position of exactly one point index used
\* in the mesh, that index is the first one at its coordinates, and no
\* triangle has two vertices at the same coordinates.
C8_DuplicatesElided ==
    (Success /\ ~AllCollinear /\ ~Distinct) =>
        /\ \A c \in Coords : Cardinality({i \in UsedPoints : points[i] = c}) = 1
        /\ \A i \in UsedPoints : \A j \in DOMAIN points : points[j] = points[i] => i <= j
        /\ \A e \in Edges : Origin(e) # Origin(NextEdge(e))

C8_Witness ==
    /\ Success /\ ~AllCollinear /\ ~Distinct
    /\ NumTriangles >= 3
    /\ Cardinality(UsedPoints) = Cardinality(Coords)
    /\ Cardinality(UsedPoints) < NumPoints

\* fewer than 3 points, or all points identical
TooFew == NumPoints < 3 \/ Cardinality(Coords) <= 1

\* C9: with fewer than 3 points or with all points identical, triangulate
\* returns None before the mesh is sized (2N - 5 is never evaluated) and
\* without a panic.
C9_TooFewIsNone ==
    TooFew =>
        \/ pc = "new"
        \/ pc = "done" /\ result = "none" /\ halfedges = <<>> /\ triangles = <<>>

\* None has been returned for three or more identical points
C9_Witness ==
    /\ pc = "done" /\ result = "none"
    /\ NumPoints >= 3 /\ Cardinality(Coords) = 1

\* C10: triangulate terminates on every input: the visible-edge search, the
\* hull walks and the flip loop all finish.
C10_Terminates == <>(pc = "done")

\* a run on five points that inserted two of them and built four triangles
\* has returned
C10_Witness ==
    /\ pc = "done" /\ result = "some"
    /\ NumPoints = 5
    /\ NumTriangles = 4

\* ------------------------------------------------- dcel: the mutators
\* TrianglesDCEL::link: two writes, in this order
Link(hes, a, b) ==
    LET h1 == [hes EXCEPT ![a] = b]
    IN  [h1 EXCEPT ![b] = a]

\* TrianglesDCEL::unlink: one write
Unlink(hes, a) == [hes EXCEPT ![a] = None]

\* TrianglesDCEL::link_option
LinkOption(hes, a, b) == IF b # None THEN Link(hes, a, b) ELSE Unlink(hes, a)

\* the point triples of the doc example of link (dcel.rs:173-174)
DcelTriples == {<<0, 1, 2>>, <<2, 1, 3>>}

\* what the mutators leave alone
dcelframe == <<points, pc, result, stack, hull, indices, k, prev_point, loc,
               points_to_triangles, around, yielded, last>>

\* TrianglesDCEL::with_capacity(MaxCap): no vertices, 3 * MaxCap twinless edges
DcelInit ==
    /\ points = <<>>
    /\ pc = "dcel"
    /\ result = "running"
    /\ triangles = <<>>
    /\ halfedges = WithCapacity(MaxCap)
    /\ stack = <<>>
    /\ hull = NoHull
    /\ indices = <<>>
    /\ k = 1
    /\ prev_point = <<>>
    /\ loc = NoLoc
    /\ points_to_triangles = <<>>
    /\ around = NoAround
    /\ yielded = <<>>
    /\ last = NoLast

\* TrianglesDCEL::add_triangle: appends three vertices, touches no twin
DcelAddTriangle ==
    /\ pc = "dcel"
    /\ Len0(triangles) < 3 * MaxCap
    /\ \E pts \in DcelTriples : triangles' = PushTriangle(triangles, pts)
    /\ UNCHANGED halfedges
    /\ UNCHANGED dcelframe

\* link(a, b) with a # b
DcelLink ==
    /\ pc = "dcel"
    /\ \E a, b \in DOMAIN halfedges :
         /\ a # b
         /\ halfedges' = Link(halfedges, a, b)
    /\ UNCHANGED triangles
    /\ UNCHANGED dcelframe

\* unlink(a)
DcelUnlink ==
    /\ pc = "dcel"
    /\ \E a \in DOMAIN halfedges : halfedges' = Unlink(halfedges, a)
    /\ UNCHANGED triangles
    /\ UNCHANGED dcelframe

\* link_option(a, b) with b none or an edge other than a
DcelLinkOption ==
    /\ pc = "dcel"
    /\ \E a \in DOMAIN halfedges, b \in DOMAIN halfedges \cup {None} :
         /\ a # b
         /\ halfedges' = LinkOption(halfedges, a, b)
    /\ UNCHANGED triangles
    /\ UNCHANGED dcelframe

DcelNext == DcelAddTriangle \/ DcelLink \/ DcelUnlink \/ DcelLinkOption

DcelSpec == DcelInit /\ [][DcelNext]_vars

\* ------------------------------------------- dcel: the edge functions
\* TrianglesDCEL::triangle_edges
TriangleEdges(t) == <<t, NextEdge(t), NextEdge(NextEdge(t))>>

\* does triangle_points index vertices out of bounds (a panic)?
TrianglePointsPanics(tris, t) == \E i \in 1..3 : TriangleEdges(t)[i] \notin DOMAIN tris

\* TrianglesDCEL::triangle_points
TrianglePoints(tris, t) == [i \in 1..3 |-> tris[TriangleEdges(t)[i]]]

\* the vertex tables one or two add_triangle calls build from point ids 0..2
EdgeMeshes ==
    LET Triples == [1..3 -> 0..2]
    IN  {PushTriangle(<<>>, t1) : t1 \in Triples}
        \cup {PushTriangle(PushTriangle(<<>>, t1), t2) : t1, t2 \in Triples}

\* the edge ids the functions are called with
EdgeIds == 0..3 * MaxCap - 1

\* what the edge functions leave alone: they only read
edgeframe == <<points, triangles, halfedges, stack, hull, indices, k, prev_point, loc,
               points_to_triangles, around, yielded>>

\* a TrianglesDCEL::with_capacity(MaxCap) after one or two add_triangle calls
EdgeInit ==
    /\ points = <<>>
    /\ pc = "edges"
    /\ result = "running"
    /\ triangles \in EdgeMeshes
    /\ halfedges = WithCapacity(MaxCap)
    /\ stack = <<>>
    /\ hull = NoHull
    /\ indices = <<>>
    /\ k = 1
    /\ prev_point = <<>>
    /\ loc = NoLoc
    /\ points_to_triangles = <<>>
    /\ around = NoAround
    /\ yielded = <<>>
    /\ last = NoLast

CallNextEdge ==
    /\ pc = "edges"
    /\ \E e \in EdgeIds : last' = [op |-> "next_edge", e |-> e, r |-> NextEdge(e)]
    /\ UNCHANGED <<pc, result>>
    /\ UNCHANGED edgeframe

CallPrevEdge ==
    /\ pc = "edges"
    /\ \E e \in EdgeIds : last' = [op |-> "prev_edge", e |-> e, r |-> PrevEdge(e)]
    /\ UNCHANGED <<pc, result>>
    /\ UNCHANGED edgeframe

CallTriangleFirstEdge ==
    /\ pc = "edges"
    /\ \E e \in EdgeIds :
         last' = [op |-> "triangle_first_edge", e |-> e, r |-> TriangleFirstEdge(e)]
    /\ UNCHANGED <<pc, result>>
    /\ UNCHANGED edgeframe

\* triangle_points(t); vertices[..] out of bounds panics
CallTrianglePoints ==
    /\ pc = "edges"
    /\ \E t \in EdgeIds :
         IF TrianglePointsPanics(triangles, t)
         THEN /\ pc' = "panic"
              /\ result' = "points index"
              /\ last' = [op |-> "triangle_points", e |-> t, r |-> <<>>]
         ELSE /\ last' = [op |-> "triangle_points", e |-> t,
                          r |-> TrianglePoints(triangles, t)]
              /\ UNCHANGED <<pc, result>>
    /\ UNCHANGED edgeframe

EdgeNext == CallNextEdge \/ CallPrevEdge \/ CallTriangleFirstEdge \/ CallTrianglePoints

EdgeSpec == EdgeInit /\ [][EdgeNext]_vars

\* the iterator has been made and has nothing more to yield
AroundDone == around # NoAround /\ around.current = None

\* the edges the iterator has yielded, in order
YieldedEdges == SelectSeq(yielded, LAMBDA e : e # None)

\* C11: after init_revmap on a triangulation result, triangles_around_point(p)
\* yields no edge whose origin is not p and, once exhausted, has yielded
\* every edge whose origin is p exactly once.
C11_FanRoundTrip ==
    /\ result \notin {"revmap index", "around index"}
    /\ around # NoAround =>
         \A i \in DOMAIN YieldedEdges : triangles[YieldedEdges[i]] = around.p
    /\ AroundDone =>
         \A e \in Edges : triangles[e] = around.p =>
             Cardinality({i \in DOMAIN YieldedEdges : YieldedEdges[i] = e}) = 1

\* C13: building the reverse map never indexes out of bounds and, once it
\* is built, every point index p of the input has an entry whose edge has
\* origin p, namely the highest-numbered edge with origin p.
C13_RevmapTotal ==
    /\ result # "revmap index"
    /\ points_to_triangles # <<>> =>
         \A p \in DOMAIN points :
             /\ p \in DOMAIN points_to_triangles[1]
             /\ triangles[points_to_triangles[1][p]] = p
             /\ \A e \in Edges : triangles[e] = p => e <= points_to_triangles[1][p]

\* the number of edges leaving point q
Degree(q) == Cardinality({e \in Edges : triangles[e] = q})

C14_UnlinkBothSides ==
    [][\A e \in DOMAIN halfedges :
         /\ halfedges' = Unlink(halfedges, e) =>
              /\ halfedges'[e] = None
              /\ halfedges[e] # None => halfedges'[halfedges[e]] = None
         /\ (halfedges' = LinkOption(halfedges, e, None)
                /\ halfedges[e] # None /\ halfedges[halfedges[e]] = e) =>
              /\ halfedges'[e] # halfedges[e]
              /\ halfedges'[halfedges[e]] # e]_vars

\* C15: in every state reached by add_triangle, link (of two different
\* edges), unlink and link_option, every edge has no twin or is the twin of
\* its twin.
C15_TwinSymmetryInvariant ==
    pc = "dcel" =>
        \A e \in DOMAIN halfedges :
            halfedges[e] = None \/ halfedges[halfedges[e]] = e

\* the triple s rotated left by n places
Rotated(s, n) == [i \in 1..3 |-> s[((i - 1 + n) % 3) + 1]]

\* C16: next_edge(e) is e - 2 when e mod 3 = 2 and e + 1 otherwise, prev_edge(e)
\* is e + 2 when e mod 3 = 0 and e - 1 otherwise, triangle_first_edge(e) is
\* e - (e mod 3); prev_edge undoes next_edge, three next_edge steps return to
\* e, both stay in the triangle of e, and triangle_points(t + n) is
\* triangle_points(t) rotated n places, t being the triangle's first edge.
C16_EdgeAlgebra ==
    LET e == last.e
    IN  /\ last.op = "next_edge" =>
              /\ last.r = (IF e % 3 = 2 THEN e - 2 ELSE e + 1)
              /\ PrevEdge(last.r) = e
              /\ NextEdge(NextEdge(last.r)) = e
              /\ TriangleFirstEdge(last.r) = TriangleFirstEdge(e)
        /\ last.op = "prev_edge" =>
              /\ last.r = (IF e % 3 = 0 THEN e + 2 ELSE e - 1)
              /\ TriangleFirstEdge(last.r) = TriangleFirstEdge(e)
        /\ last.op = "triangle_first_edge" =>
              /\ last.r = e - (e % 3)
              /\ last.r % 3 = 0
              /\ last.r <= e /\ e <= last.r + 2
        /\ (last.op = "triangle_points" /\ pc # "panic") =>
              last.r = Rotated(TrianglePoints(triangles, TriangleFirstEdge(e)),
                               e - TriangleFirstEdge(e))

\* triangle_points was called on the last edge of the second triangle, whose
\* three points differ
C16_Witness ==
    /\ last.op = "triangle_points"
    /\ pc = "edges"
    /\ last.e = 5
    /\ Cardinality({last.r[i] : i \in 1..3}) = 3

\* the edge bl of the flip legalize is in the middle of
WalkBl == (loc.b - (loc.b % 3)) + ((loc.b + 2) % 3)

\* C17: the search of legalize for the hull point whose hull_edge is bl
\* stops when it stands on a retired slot (next[edge] = edge): a walk that
\* stands on one has found its point or is back at hull.start, so that it
\* never goes round a retired slot for ever.
C17_WalkStopsAtRetired ==
    (pc = "hullwalk" /\ hull.next[loc.edge] = loc.edge) =>
        (hull.triangles[loc.edge] = WalkBl \/ loc.edge = hull.start)

\* the points reached from p by following hull.next, S being those passed
RECURSIVE HullOrbit(_, _)
HullOrbit(S, p) == IF p \in S THEN S ELSE HullOrbit(S \cup {p}, hull.next[p])

\* the points currently on the hull
HullPoints == HullOrbit({}, hull.start)

\* Hull::new has run and no insertion is under way
AtRest == pc \in {"loop", "done"} /\ hull # NoHull

\* C18: after Hull::new and after every completed insertion, the hull_edge of
\* every point p on the hull is an edge of the mesh that starts at p, ends at
\* next[p] and has no twin (so a flip that replaced a boundary edge has
\* retargeted its owner).
C18_HullEdges ==
    AtRest =>
        \A p \in HullPoints :
            LET e == hull.triangles[p]
            IN  /\ e \in Edges
                /\ triangles[e] = p
                /\ triangles[NextEdge(e)] = hull.next[p]
                /\ halfedges[e] = None

\* the hull points are one cycle under next through hull.start, without
\* retired slots, on which next and prev are mutual inverses
HullCycle ==
    /\ hull.start \in HullPoints
    /\ \A p \in HullPoints :
          /\ hull.next[p] \in HullPoints
          /\ hull.next[p] # p
          /\ hull.prev[hull.next[p]] = p
          /\ hull.next[hull.prev[p]] = p

\* the splice of index i between the final start a and end b
Spliced ==
    /\ hull'.next[loc.start] = loc.index
    /\ hull'.next[loc.index] = loc.end
    /\ hull'.prev[loc.end] = loc.index
    /\ hull'.prev[loc.index] = loc.start
    /\ hull'.start = loc.start

\* C19: after Hull::new and after every completed insertion the hull points
\* form a single cycle under next that contains hull.start, with next and prev
\* mutual inverses on it; and the step that completes the insertion of i
\* between the final a and b leaves next[a] = i, next[i] = b, prev[b] = i,
\* prev[i] = a and start = a
C19_HullCycle ==
    [][/\ (pc = "splice" /\ pc' = "loop") => Spliced
       /\ AtRest' => HullCycle']_vars

\* an insertion has completed that retired a hull point and left a hull of
\* at least four points
C19_Witness ==
    /\ pc = "loop"
    /\ hull # NoHull
    /\ k > 1
    /\ Cardinality(HullPoints) >= 4
    /\ \E p \in DOMAIN hull.next : hull.next[p] = p /\ p \notin HullPoints

\* legalize is about to return loc.ar to the first triangle or to a
\* forward-walk triangle of the insertion of loc.index
ReturnsForward == pc = "legalize" /\ stack = <<>> /\ loc.ret \in {"first", "forward"}

\* the hull successor of the inserted point once the triangle is attached:
\* the third vertex of the new triangle
Successor == IF loc.ret = "first" THEN loc.end ELSE loc.next

Visible(p) ==
    Orientation(points[loc.index], points[p], points[hull.next[p]]) < 0

\* C21: on a valid hull find_visible_edge returns (p, flag) only for a hull
\* point p whose edge to next[p] is strictly visible from P; it returns none
\* exactly when the walk is back at its starting point, when no hull edge is
\* strictly visible from P; flag is true exactly when the walk made no step;
\* and the walk makes at most as many steps as there are hull points
C21_FindVisibleEdge ==
    [][pc = "visible" =>
         /\ loc.steps < Cardinality(HullPoints)
         /\ pc' = "first" =>
               /\ loc'.start \in HullPoints
               /\ Visible(loc'.start)
               /\ loc'.should_walk_back <=> (loc.steps = 0)
         /\ pc' = "loop" =>
               /\ hull.next[loc.edge] = loc.fv_start
               /\ \A p \in HullPoints : ~Visible(p)
         /\ (\A p \in HullPoints : ~Visible(p)) => pc' # "first"
         /\ (\E p \in HullPoints : Visible(p)) => pc' # "loop"]_vars

\* the walk has made two steps and is about to return a visible edge, on a
\* hull of at least four points
C21_Witness ==
    /\ pc = "visible"
    /\ loc.steps >= 2
    /\ Cardinality(HullPoints) >= 4
    /\ Visible(loc.edge)

\* p was a seed point or add_point attached a triangle at p
\* (hull.triangles[p] is written then and never cleared)
EverInserted(p) == hull.triangles[p] # None

\* the slot of p is dead
Dead(p) == hull.next[p] = p

\* between insertions next[p] = p holds exactly for the points that are not
\* on the hull, among those that were ever inserted
DeadExactlyOffHull ==
    \A p \in DOMAIN hull.next :
        EverInserted(p) => (Dead(p) <=> p \notin HullPoints)

\* a point other than the one being inserted whose slot is dead keeps a dead
\* slot
DeadStaysDead ==
    \A p \in DOMAIN hull.next :
        (EverInserted(p) /\ Dead(p) /\ p # loc.index) => hull'.next[p] = p

\* C22: a point removed from the hull during an insertion has next[p] = p from
\* that moment on and never becomes a hull point again, every point on the
\* hull has next[p] # p, and so next[p] = p holds exactly for the points that
\* are not on the hull among those that were ever inserted
C22_DeadSlots ==
    [][/\ (hull # NoHull /\ hull' # NoHull) => DeadStaysDead
       /\ AtRest' => DeadExactlyOffHull']_vars

\* an insertion has completed that removed a point other than point 0 from
\* the hull in its forward walk and another in its backward walk
C22_Witness ==
    /\ AtRest
    /\ \E p, q \in DOMAIN hull.next :
          /\ p # q /\ p # 0 /\ q # 0
          /\ EverInserted(p) /\ Dead(p)
          /\ EverInserted(q) /\ Dead(q)

\* the hash slot of hull point p
SlotOf(p) == AngularHash(points[p], hull.center, Len0(hull.hash_table))

\* p is in its own hash slot and on the hull
StampedAlive(p) ==
    /\ hull.hash_table[SlotOf(p)] = p
    /\ hull.next[p] # p
    /\ p \in HullPoints

\* the point is about to be offered to add_point or skipped as a duplicate
AtCall == pc = "loop" /\ hull # NoHull /\ k <= Len(indices)

\* C24: at every call of find_visible_edge made by Delaunay::new the slot
\* written last by add_hash (the third seed point after Hull::new, the final a
\* after an insertion) still holds that point and the point is on the hull, so
\* the probe loop ends on a slot that holds a point currently on the hull
C24_LiveSlot ==
    AtCall =>
        /\ \E p \in {hull.start, hull.prev[hull.start]} : StampedAlive(p)
        /\ LET s == ProbeStart(hull, points[indices[k]])
           IN  s # None /\ hull.next[s] # s /\ s \in HullPoints

\* a call at which a slot of the hash table holds a dead point
C24_Witness ==
    /\ AtCall
    /\ \E i \in DOMAIN hull.hash_table :
          /\ hull.hash_table[i] # None
          /\ hull.next[hull.hash_table[i]] = hull.hash_table[i]

\* --------------------------------------- find_visible_edge as a function
\* Hull::find_visible_edge on hulls with any hash table: the hull of
\* Hull::new for the seed triangle (1,1), (1,5), (5,1) (points 0, 1, 2), a
\* retired point 3 = (2,2) whose slot is dead and whose prev still names a hull
\* point, and the point 4 that is looked up.  The hash table is a hint: each
\* of its slots holds none or any of the points 0..3.
ProbeSeed == <<0, 1, 2>>

ProbeQueries == {<<6, 6>>, <<0, 3>>, <<3, 0>>, <<0, 0>>, <<2, 3>>, <<7, 0>>}

ProbePoints(q) ==
    [i \in 0..4 |-> <<<<1, 1>>, <<1, 5>>, <<5, 1>>, <<2, 2>>, q>>[i + 1]]

ProbeHulls ==
    LET new == HullNew(ProbeSeed)
    IN  { [new EXCEPT !.hash_table = tbl,
                      !.next = [new.next EXCEPT ![3] = 3],
                      !.prev = [new.prev EXCEPT ![3] = pv],
                      !.triangles = [new.triangles EXCEPT ![3] = 0]] :
            tbl \in [DOMAIN new.hash_table -> {None, 0, 1, 2, 3}],
            pv \in {0, 1, 2} }

ProbeInit ==
    /\ points \in {ProbePoints(q) : q \in ProbeQueries}
    /\ hull \in ProbeHulls
    /\ pc = "loop"
    /\ result = "running"
    /\ triangles = PushTriangle(<<>>, ProbeSeed)
    /\ halfedges = WithCapacity(2 * NumPoints - 3 - 2)
    /\ stack = <<>>
    /\ indices = <<4>>
    /\ k = 1
    /\ prev_point = <<>>
    /\ loc = NoLoc
    /\ points_to_triangles = <<>>
    /\ around = NoAround
    /\ yielded = <<>>
    /\ last = NoLast

\* the call of find_visible_edge alone: the probe, then the walk
ProbeNext ==
    \/ FindVisibleEdgeProbe
    \/ FindVisibleEdgeStep

ProbeSpec == ProbeInit /\ [][ProbeNext]_vars

\* add_point is about to be called on indices[k]
CallsAddPoint ==
    /\ AtCall
    /\ ~(prev_point # <<>> /\ ApproxEq(prev_point[1], points[indices[k]]))

\* the hash slot probed in iteration i of the probe loop
Probed(i) ==
    LET S == Len0(hull.hash_table)
    IN  hull.hash_table[(AngularHash(points[indices[k]], hull.center, S) + i) % S]

\* the iterations of the probe loop whose slot is present and alive
AliveProbes ==
    {i \in 0..Len0(hull.hash_table) - 1 :
        Probed(i) # None /\ hull.next[Probed(i)] # Probed(i)}

FromZero(seq) == [e \in 0..Len(seq) - 1 |-> seq[e + 1]]

RECURSIVE Copies(_, _)
Copies(n, x) == IF n = 0 THEN <<>> ELSE Append(Copies(n - 1, x), x)

StackInit ==
    /\ points = FromZero(<<<<0, 0>>, <<0, 1>>, <<0, 2>>, <<1, 0>>, <<2, 1>>>>)
    /\ indices = <<2, 4>>
    /\ k = 2
    /\ prev_point = <<<<0, 2>>>>
    /\ result = "running"
    /\ triangles = FromZero(<<1, 3, 0, 1, 2, 3, 2, 4, 3>>)
    /\ halfedges = FromZero(<<5, None, None, None, 8, 0, None, None, 4,
                              None, None, None, None, None, None>>)
    /\ hull = [next |-> FromZero(<<1, 2, 3, 0, 0>>),
               prev |-> FromZero(<<3, 0, 1, 2, 0>>),
               hash_table |-> FromZero(<<0, 3, 1>>),
               triangles |-> FromZero(<<2, 3, 4, 1, None>>),
               center |-> [x |-> -1, y |-> -1, d |-> -2],
               start |-> 1]
    /\ loc = [NoLoc EXCEPT !.index = 4, !.start = 2, !.end = 3, !.should_walk_back = TRUE,
                           !.fv_start = 2, !.edge = 2, !.t = 6, !.ret = "first"]
    /\ pc = "legalize"
    /\ \E n \in 0..STACK_CAPACITY - 1 : stack = Append(Copies(n, 6), 8)
    /\ points_to_triangles = <<>>
    /\ around = NoAround
    /\ yielded = <<>>
    /\ last = NoLast

\* one call of legalize: the loop, the search of the hull, the return
StackNext ==
    \/ LegalizeStep
    \/ HullWalkStep
    \/ LegalizeReturn

StackSpec == StackInit /\ [][StackNext]_vars

\* the second half of a flip of edge a with twin b is made on the stack stk
\* (what is left of the stack once a has been popped)
FlipPushes(stk, a, b) ==
    LET b0 == b - (b % 3)
        br == b0 + ((b + 1) % 3)
        a0 == a - (a % 3)
        ar == a0 + ((a + 2) % 3)
        bl == b0 + ((b + 2) % 3)
    IN  /\ stack' = IF Len(stk) < STACK_CAPACITY - 1
                    THEN Append(Append(stk, br), a)
                    ELSE stk
        /\ halfedges'[ar] = bl
        /\ halfedges'[bl] = ar

\* C25: the work stack of legalize never holds more than STACK_CAPACITY
\* entries: after a flip br and a are pushed only if the stack size is below
\* STACK_CAPACITY - 1 and are dropped otherwise, the flip being applied all the
\* same; and the stack is empty every time legalize returns
C25_StackBounded ==
    [][/\ Len(stack') <= STACK_CAPACITY
       /\ (pc = "hullwalk" /\ pc' = "legalize") => FlipPushes(stack, loc.a, loc.b)
       /\ (pc = "legalize" /\ pc' = "legalize" /\ triangles' # triangles) =>
              FlipPushes(SubSeq(stack, 1, Len(stack) - 1), stack[Len(stack)],
                         halfedges[stack[Len(stack)]])
       /\ (pc = "legalize" /\ pc' \notin {"legalize", "hullwalk"}) =>
              (stack = <<>> /\ stack' = <<>>)]_vars

\* a flip is finished on a stack that is full: nothing is pushed
C25_Witness ==
    /\ pc = "hullwalk"
    /\ Len(stack) = STACK_CAPACITY - 1
    /\ hull.triangles[loc.edge] = WalkBl

\* the vertex entries after a flip of edge a with twin b: a gets p1, b gets
\* p0, both change, nothing else does
VerticesFlipped(a, b) ==
    LET a0 == a - (a % 3)
        ar == a0 + ((a + 2) % 3)
        b0 == b - (b % 3)
        bl == b0 + ((b + 2) % 3)
        p0 == triangles[ar]
        p1 == triangles[bl]
    IN  /\ DOMAIN triangles' = DOMAIN triangles
        /\ triangles'[a] = p1 /\ triangles'[a] # triangles[a]
        /\ triangles'[b] = p0 /\ triangles'[b] # triangles[b]
        /\ \A e \in DOMAIN triangles \ {a, b} : triangles'[e] = triangles[e]

\* the twin table post after a flip of edge a with twin b made on the table
\* pre: a gets the former twin of bl and b the former twin of ar, those twins
\* point back, ar and bl are twins, nothing else changes
TwinsFlipped(pre, post, a, b) ==
    LET a0 == a - (a % 3)
        ar == a0 + ((a + 2) % 3)
        b0 == b - (b % 3)
        bl == b0 + ((b + 2) % 3)
        hbl == pre[bl]
        har == pre[ar]
    IN  /\ DOMAIN post = DOMAIN pre
        /\ post[a] = hbl
        /\ post[b] = har
        /\ hbl # None => post[hbl] = a
        /\ har # None => post[har] = b
        /\ post[ar] = bl
        /\ post[bl] = ar
        /\ \A e \in DOMAIN pre \ {a, b, ar, bl, hbl, har} : post[e] = pre[e]

\* C26: a flip in legalize of edge a with twin b changes exactly two vertex
\* entries (vertex[a] becomes p1, vertex[b] becomes p0), gives a the former
\* twin of bl and b the former twin of ar, with the back-pointers of those
\* twins, makes ar and bl twins of each other and leaves every other vertex
\* entry, every other twin entry and the number of triangles unchanged.  A
\* flip whose bl has no twin is made in two parts, around the search of the
\* hull: the vertices and the twin of a first, the other twins afterwards.
C26_FlipFrame ==
    [][LET a == stack[Len(stack)]
           b == halfedges[a]
       IN  /\ (pc = "legalize" /\ pc' = "legalize"
                 /\ (triangles' # triangles \/ halfedges' # halfedges)) =>
                  /\ VerticesFlipped(a, b)
                  /\ TwinsFlipped(halfedges, halfedges', a, b)
           /\ (pc = "legalize" /\ pc' = "hullwalk") =>
                  /\ VerticesFlipped(a, b)
                  /\ halfedges[(b - (b % 3)) + ((b + 2) % 3)] = None
                  /\ halfedges' = [halfedges EXCEPT ![a] = None]
           /\ (pc = "hullwalk" /\ pc' = "legalize") =>
                  /\ triangles' = triangles
                  /\ TwinsFlipped([halfedges EXCEPT ![loc.a] = loc.b], halfedges',
                                  loc.a, loc.b)]_vars

\* a flip is about to be made in one step: the edge a on top of the stack is
\* illegal and bl has a twin, whose back-pointer the flip rewrites
C26_Witness ==
    /\ pc = "legalize"
    /\ stack # <<>>
    /\ LET a == stack[Len(stack)]
           b == halfedges[a]
           ar == (a - (a % 3)) + ((a + 2) % 3)
       IN  /\ b # None
           /\ Illegal(triangles[ar], triangles[a], triangles[(a - (a % 3)) + ((a + 1) % 3)],
                      triangles[(b - (b % 3)) + ((b + 2) % 3)])
           /\ halfedges[(b - (b % 3)) + ((b + 2) % 3)] # None

\* C27: during Delaunay::new on N >= 3 points the mesh never holds more than
\* 2N - 5 triangles, so every edge id that add_triangle or legalize writes to
\* the twin table is below 3(2N - 5): no write falls outside the pre-sized
\* table (an out-of-bounds write is a panic)
C27_WithinCapacity ==
    (NumPoints >= 3 /\ pc # "new") =>
        /\ NumTriangles <= 2 * NumPoints - 5
        /\ \A e \in Edges : e < 3 * (2 * NumPoints - 5) /\ e \in DOMAIN halfedges
        /\ pc # "panic"
        /\ result # "panic"

\* a mesh of five or more points that fills the table: 2N - 5 triangles
C27_Witness ==
    /\ NumPoints >= 5
    /\ pc # "new"
    /\ NumTriangles = 2 * NumPoints - 5

\* ------------------------------------------------- seed selection, fine grid
\* A fifth family of inputs: the arrays of Inputs with the coordinates in
\* units of 1 / FineUnits = 2^-12, so that neighbouring grid points lie
\* within sqrt(EPSILON) of each other.
FineUnits == 4096

FineInputs ==
    { [i \in DOMAIN p |-> <<p[i][1], p[i][2], FineUnits>>] : p \in Inputs }

\* Delaunay::new on the fifth family of inputs
FineInit ==
    /\ points \in FineInputs
    /\ pc = "new"
    /\ result = "running"
    /\ triangles = <<>>
    /\ halfedges = <<>>
    /\ stack = <<>>
    /\ hull = NoHull
    /\ indices = <<>>
    /\ k = 1
    /\ prev_point = <<>>
    /\ loc = NoLoc
    /\ points_to_triangles = <<>>
    /\ around = NoAround
    /\ yielded = <<>>
    /\ last = NoLast

FineSpec == FineInit /\ [][Next]_vars

\* The reference definition of the seed.  s: a point nearest the mean, the
\* lowest index winning where the computed distances tie (surely so when the
\* mean is exact or the points are equal).
RefSeedIdx ==
    LET S == DOMAIN points
        center == FindCenter
        M == {i \in S : \A j \in S :
                DistanceSqToMean(i, center) <= DistanceSqToMean(j, center)}
    IN  {i \in M : \A j \in M : (IsPow2(NumPoints) \/ points[j] = points[i]) => i <= j}

\* n: a point nearest s among the indices other than s at non-zero distance
RefNearest(s) ==
    LET S == {i \in DOMAIN points : i # s /\ DistanceSq(points[i], points[s]) # 0}
    IN  {i \in S : \A j \in S :
            DistanceSq(points[i], points[s]) <= DistanceSq(points[j], points[s])}

\* t: an index outside {s, n} of least circumradius with s and n, a collinear
\* candidate counting as infinite radius
RefThird(s, n) ==
    LET S == {i \in DOMAIN points : i # s /\ i # n}
        finite == {i \in S : Orientation(points[s], points[n], points[i]) # 0}
    IN  IF finite = {} THEN S
        ELSE {i \in finite : \A j \in finite :
                ~RadiusLess(CircumradiusSq(points[s], points[n], points[j]),
                            CircumradiusSq(points[s], points[n], points[i]))}

\* the seed is (s, n, t) if right-handed and (s, t, n) otherwise
RefSeeds ==
    UNION { UNION { { IF Orientation(points[s], points[n], points[t]) > 0
                      THEN <<s, n, t>> ELSE <<s, t, n>> : t \in RefThird(s, n) }
                    : n \in RefNearest(s) } : s \in RefSeedIdx }

\* C28: on every input the seed Delaunay::new starts from is a seed of the
\* reference definition (s nearest the mean, n nearest s at non-zero
\* distance, t of least circumradius, ordered by orientation), and
\* Delaunay::new returns None for want of a seed only when the reference
\* definition has none
C28_SeedMatchesReference ==
    [][pc = "new" =>
         IF result' = "none"
         THEN RefSeeds = {}
         ELSE <<triangles'[0], triangles'[1], triangles'[2]>> \in RefSeeds]_vars

\* the indices handed to the for loop of Delaunay::new
Offered == {indices[j] : j \in DOMAIN indices}

\* squared distance from the seed circumcenter, which Hull::new keeps
RadialKey(P) == DistanceSqToCenter(P, hull.center)

\* C29: the seed triangle is added first, as edges 0, 1, 2, before any point
\* is offered; the indices handed to the loop are all the indices but the
\* three of the seed; add_point is called on them in non-decreasing order of
\* squared distance from the seed circumcenter, never on an index of the
\* seed, never on an index inserted or offered before, and the loop only
\* moves forward
C29_RadialOrder ==
    [][/\ (pc = "new" /\ pc' = "loop") =>
            /\ DOMAIN triangles' = 0..2
            /\ k' = 1
            /\ prev_point' = <<>>
            /\ {p \in DOMAIN points : EverInserted(p)'} = {triangles'[e] : e \in 0..2}
            /\ Offered' = {p \in DOMAIN points : ~EverInserted(p)'}
       /\ CallsAddPoint =>
            /\ ~EverInserted(indices[k])
            /\ \A j \in 1..k - 1 : indices[j] # indices[k]
            /\ prev_point # <<>> => RadialKey(prev_point[1]) <= RadialKey(points[indices[k]])
            /\ \/ pc' = "visible" /\ loc'.index = indices[k] /\ k' = k
               \/ pc' = "loop" /\ k' = k + 1
       /\ pc \notin {"new", "done"} =>
            /\ indices' = indices
            /\ k' \in {k, k + 1}
            /\ \A p \in DOMAIN points : EverInserted(p) => EverInserted(p)']_vars

\* add_point is about to be called on the third or a later index of the
\* loop, farther from a finite seed circumcenter than the point before it
C29_Witness ==
    /\ CallsAddPoint
    /\ k >= 3
    /\ prev_point # <<>>
    /\ hull.center.d # 0
    /\ RadialKey(prev_point[1]) < RadialKey(points[indices[k]])

\* the hull (next, prev, hull_edge, hash table, start, center) and the mesh
\* (vertex and twin tables, and with them the triangle count) are left as
\* they are
SkipFrame == hull' = hull /\ triangles' = triangles /\ halfedges' = halfedges

\* C30: skipping a point changes nothing.  The step that skips a point
\* approx_eq to the previously processed one, every step of find_visible_edge
\* and the return of add_point on its None leave the hull and the mesh as
\* they were when the point came up, and the loop moves on to the next index
C30_SkipChangesNothing ==
    [][/\ (AtCall /\ ~CallsAddPoint) =>
            /\ SkipFrame
            /\ pc' = "loop"
            /\ k' = k + 1
            /\ prev_point' = prev_point
       /\ ((CallsAddPoint \/ pc = "visible") /\ pc' \in {"loop", "visible"}) =>
            /\ SkipFrame
            /\ pc' = "loop" => k' = k + 1]_vars

\* both skips have happened: the loop is past an index equal to the one
\* before it in the list, and add_point has just returned on the None of
\* find_visible_edge for a point that is no duplicate of an earlier one
C30_Witness ==
    /\ pc = "loop"
    /\ hull # NoHull
    /\ k >= 3
    /\ \E j \in 2..k - 1 : points[indices[j]] = points[indices[j - 1]]
    /\ ~EverInserted(indices[k - 1])
    /\ prev_point = <<points[indices[k - 1]]>>
    /\ \A j \in 1..k - 2 : points[indices[j]] # points[indices[k - 1]]

====
